---- MODULE Spec2Model ----
(***************************************************************************)
(* The article orchestration service (src/src/api/services/                *)
(* ArticleService.ts) as a state machine: the relational store, the        *)
(* document-storage and publishing adapters, the event dispatcher, and the *)
(* request handlers running as interleaved asynchronous calls.  Every      *)
(* `await` of a handler is a point where other calls may take steps.       *)
(***************************************************************************)
EXTENDS Integers, Sequences, FiniteSets, TLC

\* ------------------------------------------------------------------ bounds
MaxCalls == 3       \* calls started on stored articles in one behaviour
MaxCreates == 2     \* create calls started in one behaviour
MaxInFlight == 2    \* calls in flight at the same time (call slots)
MaxAuthors == 2     \* length of a submitted author list
MaxEditors == 2     \* length of an assign input list

\* ------------------------------------------------------------------ values
Undefined == [undefined |-> TRUE]
Idle == [op |-> "idle", pc |-> "idle"]
NoId == ""
MissingId == "u0"                       \* an id no article ever had
UuidPool == <<"u1", "u2", "u3">>        \* the values uuid.v4() yields, in order
Range(s) == {s[k] : k \in DOMAIN s}
SeqsUpTo(S, n) == UNION {[1..k -> S] : k \in 0..n}

AuthorFields == {"name", "email", "school", "biography", "country"}
AuthorDTO(n, e, s, b, c) ==
    [name |-> n, email |-> e, school |-> s, biography |-> b, country |-> c]
\* class-validator on an AuthorDTO: every field is @IsNotEmpty
validateSync(a) == {f \in AuthorFields : a[f] = ""}

\* submitted authors: two valid ones, one without email, one without school
AuthorInputs ==
    { AuthorDTO("n", "e1", "s", "b", "c"), AuthorDTO("n", "e2", "s", "b", "c"),
      AuthorDTO("n", "", "s", "b", "c"), AuthorDTO("n", "e1", "", "b", "c") }

ALLOWED_FORMATS == {"application/msword"}
Mimes == ALLOWED_FORMATS \cup {"image/png"}
validateFile_unchecked(mime) == {}
validateFile(mime) == IF mime \notin ALLOWED_FORMATS THEN {"mimeType"} ELSE {}

DOC_MIME == "application/vnd.google-apps.document"
ENV_PARENT == "env.google.parent"
ENV_MARKING_GRID == "env.google.marking_grid"

\* ------------------------------------------------------------------- state
VARIABLES
    articles,       \* relational store: article id -> row (with its relations)
    authorRows,     \* relational store: the author table, in insertion order
    drive,          \* document storage: the resources created, in order
    perms,          \* document storage: granted permissions <<doc, email>>
    pendingShares,  \* shareFile calls issued and not yet completed
    posts,          \* publishing platform: number of posts created
    pendingSaves,   \* repository saves issued and not awaited, not yet landed
    events,         \* events dispatched, in order
    uuids,          \* number of identifiers uuid.v4() has generated
    deleted,        \* ids whose row a delete call has removed (history)
    landed,         \* post ids whose un-awaited save has landed (history)
    started,        \* number of calls started
    calls           \* per call slot: the call's input, position, locals, outcome

vars == <<articles, authorRows, drive, perms, pendingShares, posts,
          pendingSaves, events, uuids, deleted, landed, started, calls>>

Init ==
    /\ articles = <<>>
    /\ authorRows = <<>>
    /\ drive = <<>>
    /\ perms = {}
    /\ pendingShares = {}
    /\ posts = 0
    /\ pendingSaves = {}
    /\ events = <<>>
    /\ uuids = 0
    /\ deleted = {}
    /\ landed = {}
    /\ started = 0
    /\ calls = [i \in 1..MaxInFlight |-> Idle]

\* ----------------------------------------------------------------- helpers
\* a call slot is idle, or holds a call until its outcome has been handed back
FreeSlot(i) == calls[i] = Idle /\ \A j \in 1..(i - 1) : calls[j] # Idle
CanStart(i) == started < MaxCalls /\ FreeSlot(i)
At(i, op, pc) == calls[i].op = op /\ calls[i].pc = pc
Fail(c, err) == [c EXCEPT !.pc = "failed", !.result = err]

\* a call that has just been entered: what it has loaded (art), what it hands
\* back (ret), and the calls it has made so far to the document storage (drive),
\* the publishing platform (wp), repository.save (saves) and the dispatcher
Call(op, pc) ==
    [op |-> op, pc |-> pc, result |-> "", art |-> Undefined, ret |-> Undefined,
     drive |-> <<>>, wp |-> <<>>, saves |-> 0, dispatched |-> <<>>]

\* repository.findOne(id): the row, or undefined
findOne(id) == IF id \in DOMAIN articles THEN articles[id] ELSE Undefined

\* AuthorService.findByEmail: the first author row with that email, or undefined
findByEmail(email) ==
    IF \E k \in DOMAIN authorRows : authorRows[k].email = email
    THEN authorRows[CHOOSE k \in DOMAIN authorRows :
                        /\ authorRows[k].email = email
                        /\ \A j \in 1..(k - 1) : authorRows[j].email # email]
    ELSE Undefined

\* plainToClass(Author, dto): an Author object that has no id yet
ToAuthor(a) == [id |-> 0] @@ a

findAuthorOrAuthor_never(author) == author
\* line 71: (await findByEmail(author.email)) || author
findAuthorOrAuthor(author) ==
    IF findByEmail(author.email) # Undefined THEN findByEmail(author.email) ELSE author

\* plainToClass(Article, articleDto), with the resolved authors
ToArticle(dto, authors) ==
    [id |-> dto.id, title |-> dto.title, folderId |-> 0, docId |-> 0,
     markingGridId |-> 0, wordpressId |-> 0, authors |-> authors, editors |-> <<>>]

\* ------------------------------------------------------ the relational store
RECURSIVE Dedup(_)
Dedup(s) ==
    IF s = <<>> THEN <<>>
    ELSE LET r == Dedup(SubSeq(s, 1, Len(s) - 1))
         IN  IF s[Len(s)] \in Range(r) THEN r ELSE Append(r, s[Len(s)])

\* the cascade of save over an article's authors: an author object without an
\* id becomes a new row, one with an id is the row it was loaded from
RECURSIVE InsertAuthors(_, _)
InsertAuthors(rows, authors) ==
    IF authors = <<>> THEN [rows |-> rows, ids |-> <<>>]
    ELSE LET a == Head(authors)
             now == IF a.id = 0
                    THEN Append(rows, [a EXCEPT !.id = Len(rows) + 1])
                    ELSE rows
             aid == IF a.id = 0 THEN Len(rows) + 1 ELSE a.id
             rest == InsertAuthors(now, Tail(authors))
         IN  [rows |-> rest.rows, ids |-> <<aid>> \o rest.ids]

Columns(art) ==
    [id |-> art.id, title |-> art.title, folderId |-> art.folderId,
     docId |-> art.docId, markingGridId |-> art.markingGridId,
     wordpressId |-> art.wordpressId]

\* repository.save(article): an upsert of the row by id; the relation tables are
\* written only when the object carries its relations
UpsertRow(art, authorIds) ==
    LET old == findOne(art.id)
        rels == IF art.rel
                THEN [authors |-> Dedup(authorIds), editors |-> Dedup(art.editors)]
                ELSE IF old # Undefined
                     THEN [authors |-> old.authors, editors |-> old.editors]
                     ELSE [authors |-> <<>>, editors |-> <<>>]
    IN  Columns(art) @@ rels

Store(row) == (row.id :> row) @@ articles

\* repository.findOne(id, {relations}) as an object in memory
Load(id, rel) ==
    IF findOne(id) = Undefined THEN Undefined
    ELSE IF rel THEN findOne(id) @@ [rel |-> TRUE]
         ELSE Columns(findOne(id)) @@ [authors |-> <<>>, editors |-> <<>>, rel |-> FALSE]

\* ------------------------------------------------------------------ create
Titles == {"t1"}
ArticleDTOs ==
    [id : {NoId} \cup DOMAIN articles, title : Titles,
     authors : SeqsUpTo(AuthorInputs, MaxAuthors)]

NewCreate(dto, mime) ==
    Call("create", "resolve") @@ [dto |-> dto, mime |-> mime, authors |-> <<>>]

\* lines 58-72: validation, then the author lookups are issued
CreateStart(i, dto, mime) ==
    /\ FreeSlot(i)
    /\ started < MaxCreates
    /\ started' = started + 1
    /\ calls' = [calls EXCEPT ![i] =
          IF Len(dto.authors) < 1
             \/ \E k \in DOMAIN dto.authors : validateSync(dto.authors[k]) # {}
          THEN Fail(NewCreate(dto, mime), "Error")
          ELSE IF validateFile(mime) # {}
               THEN Fail(NewCreate(dto, mime), "ValidationError")
               ELSE NewCreate(dto, mime)]
    /\ UNCHANGED <<articles, authorRows, drive, perms, pendingShares, posts,
                   pendingSaves, events, uuids, deleted, landed>>

\* lines 70-75: the lookups by email answer; DTO -> Article
CreateResolve(i) ==
    /\ At(i, "create", "resolve")
    /\ LET c == calls[i]
           authors == [k \in DOMAIN c.dto.authors |->
                          findAuthorOrAuthor(ToAuthor(c.dto.authors[k]))]
       IN  calls' = [calls EXCEPT ![i] =
               [c EXCEPT !.pc = "createFolder", !.authors = authors,
                         !.art = ToArticle(c.dto, authors)]]
    /\ UNCHANGED <<articles, authorRows, drive, perms, pendingShares, posts,
                   pendingSaves, events, uuids, deleted, landed, started>>

\* a resource of the document storage; its id is its position in drive
Resource(kind, name, parent) ==
    [kind |-> kind, name |-> name, parent |-> parent]

\* lines 77-82: driveService.createFolder
CreateFolder(i) ==
    /\ At(i, "create", "createFolder")
    /\ LET c == [calls[i] EXCEPT !.drive = Append(@, "createFolder")]
       IN  \/ /\ drive' = Append(drive, Resource("folder", c.art.title, ENV_PARENT))
              /\ calls' = [calls EXCEPT ![i] =
                    [c EXCEPT !.pc = "createFile", !.art.folderId = Len(drive) + 1]]
           \/ /\ calls' = [calls EXCEPT ![i] = Fail(c, "createFolder")]
              /\ UNCHANGED drive
    /\ UNCHANGED <<articles, authorRows, perms, pendingShares, posts,
                   pendingSaves, events, uuids, deleted, landed, started>>

\* lines 84-91: driveService.createFile
CreateFile(i) ==
    /\ At(i, "create", "createFile")
    /\ LET c == [calls[i] EXCEPT !.drive = Append(@, "createFile")]
       IN  \/ /\ drive' = Append(drive, Resource(DOC_MIME, c.art.title, c.art.folderId))
              /\ calls' = [calls EXCEPT ![i] =
                    [c EXCEPT !.pc = "copy", !.art.docId = Len(drive) + 1]]
           \/ /\ calls' = [calls EXCEPT ![i] = Fail(c, "createFile")]
              /\ UNCHANGED drive
    /\ UNCHANGED <<articles, authorRows, perms, pendingShares, posts,
                   pendingSaves, events, uuids, deleted, landed, started>>

Shares_firstOnly(c) ==
    {[doc |-> c.art.docId, role |-> "writer", email |-> c.authors[k].email,
      k |-> k] : k \in DOMAIN c.authors \cap {1}}
\* lines 102-108: one shareFile per author of the article, none awaited
Shares(c) ==
    {[doc |-> c.art.docId, role |-> "writer", email |-> c.authors[k].email,
      k |-> k] : k \in DOMAIN c.authors}

WithUuid_keepInput(art) == art
\* line 110: article.id = uuid.v4()
WithUuid(art) == [art EXCEPT !.id = UuidPool[uuids + 1]]

\* lines 93-111: driveService.copy; then the shares, the id and the save are issued
CreateCopy(i) ==
    /\ At(i, "create", "copy")
    /\ uuids < Len(UuidPool)
    /\ LET c == [calls[i] EXCEPT !.drive = Append(@, "copy")]
       IN  \/ /\ drive' = Append(drive,
                    Resource(ENV_MARKING_GRID, <<"Marking Grid for ", c.art.title>>,
                             c.art.folderId))
              /\ pendingShares' = pendingShares \cup Shares(c)
              /\ uuids' = uuids + 1
              /\ calls' = [calls EXCEPT ![i] =
                    [c EXCEPT !.pc = "save", !.saves = @ + 1,
                              !.drive = @ \o [k \in DOMAIN c.authors |-> "shareFile"],
                              !.art = WithUuid([c.art EXCEPT !.markingGridId = Len(drive) + 1])]]
           \/ /\ calls' = [calls EXCEPT ![i] = Fail(c, "copy")]
              /\ UNCHANGED <<drive, pendingShares, uuids>>
    /\ UNCHANGED <<articles, authorRows, perms, posts, pendingSaves, events, deleted, landed, started>>

Created_withoutId(row) == [name |-> "article.created", article |-> [row EXCEPT !.id = NoId]]
\* line 112: dispatch(events.article.created, newArticle)
Created(row) == [name |-> "article.created", article |-> row]

CreateSave_dispatchAnyway(i) ==
    /\ At(i, "create", "save")
    /\ LET c == calls[i]
           ins == InsertAuthors(authorRows, c.authors)
           row == UpsertRow(c.art @@ [rel |-> TRUE], ins.ids)
       IN  \/ /\ authorRows' = ins.rows
              /\ articles' = Store(row)
              /\ events' = Append(events, Created(row))
              /\ calls' = [calls EXCEPT ![i] =
                    [c EXCEPT !.pc = "done", !.result = "ok",
                              !.dispatched = Append(@, Created(row)), !.ret = row]]
           \/ /\ events' = Append(events, Created(c.art))
              /\ calls' = [calls EXCEPT ![i] =
                    [Fail(c, "save") EXCEPT !.dispatched = Append(@, Created(c.art))]]
              /\ UNCHANGED <<articles, authorRows>>
    /\ UNCHANGED <<drive, perms, pendingShares, posts, pendingSaves, uuids, deleted, landed, started>>

CreateSave_lookupAgain(i) ==
    /\ At(i, "create", "save")
    /\ LET c == calls[i]
           again == [k \in DOMAIN c.authors |-> findAuthorOrAuthor(c.authors[k])]
           ins == InsertAuthors(authorRows, again)
           row == UpsertRow(c.art @@ [rel |-> TRUE], ins.ids)
       IN  \/ /\ authorRows' = ins.rows
              /\ articles' = Store(row)
              /\ events' = Append(events, Created(row))
              /\ calls' = [calls EXCEPT ![i] =
                    [c EXCEPT !.pc = "done", !.result = "ok",
                              !.dispatched = Append(@, Created(row)), !.ret = row]]
           \/ /\ calls' = [calls EXCEPT ![i] = Fail(c, "save")]
              /\ UNCHANGED <<articles, authorRows, events>>
    /\ UNCHANGED <<drive, perms, pendingShares, posts, pendingSaves, uuids, deleted, landed, started>>

\* lines 111-113: the save lands; then the event is dispatched and create returns
CreateSave(i) ==
    /\ At(i, "create", "save")
    /\ LET c == calls[i]
           ins == InsertAuthors(authorRows, c.authors)
           row == UpsertRow(c.art @@ [rel |-> TRUE], ins.ids)
       IN  \/ /\ authorRows' = ins.rows
              /\ articles' = Store(row)
              /\ events' = Append(events, Created(row))
              /\ calls' = [calls EXCEPT ![i] =
                    [c EXCEPT !.pc = "done", !.result = "ok",
                              !.dispatched = Append(@, Created(row)), !.ret = row]]
           \/ /\ calls' = [calls EXCEPT ![i] = Fail(c, "save")]
              /\ UNCHANGED <<articles, authorRows, events>>
    /\ UNCHANGED <<drive, perms, pendingShares, posts, pendingSaves, uuids, deleted, landed, started>>

\* a shareFile call completes, granting the permission or failing unobserved
ShareCompletes(s) ==
    /\ s \in pendingShares
    /\ pendingShares' = pendingShares \ {s}
    /\ \/ perms' = perms \cup {<<s.doc, s.email>>}
       \/ UNCHANGED perms
    /\ UNCHANGED <<articles, authorRows, drive, posts, pendingSaves, events,
                   uuids, deleted, landed, started, calls>>

\* the outcome is handed back to the caller; the slot is free again
Return(i) ==
    /\ calls[i].pc \in {"done", "failed"}
    /\ calls' = [calls EXCEPT ![i] = Idle]
    /\ UNCHANGED <<articles, authorRows, drive, perms, pendingShares, posts,
                   pendingSaves, events, uuids, deleted, landed, started>>

CreateStep ==
    \/ \E i \in DOMAIN calls, dto \in ArticleDTOs, mime \in Mimes : CreateStart(i, dto, mime)
    \/ \E i \in DOMAIN calls : CreateResolve(i)
    \/ \E i \in DOMAIN calls : CreateFolder(i)
    \/ \E i \in DOMAIN calls : CreateFile(i)
    \/ \E i \in DOMAIN calls : CreateCopy(i)
    \/ \E i \in DOMAIN calls : CreateSave(i)
    \/ \E s \in pendingShares : ShareCompletes(s)
    \/ \E i \in DOMAIN calls : Return(i)

SpecCreate == Init /\ [][CreateStep]_vars

\* ------------------------------------------------------------------ update
Levels == {"AUTHOR", "EDITOR", "ADMIN"}

\* the fields of an article a user of that level may mutate (the rules that
\* attemptUpdate reads from the Article model)
Permitted(level) == IF level = "AUTHOR" THEN {} ELSE {"title"}

\* the bodies of update requests: a new title, a new folder id, or both
UpdateInputs ==
    { [f \in {"title"} |-> "t2"],
      [f \in {"folderId"} |-> 99],
      [f \in {"title", "folderId"} |-> IF f = "title" THEN "t2" ELSE 99] }

\* the ids a client may pass: those of articles stored now or before, and one
\* that never existed
TargetIds == {MissingId} \cup {UuidPool[k] : k \in 1..uuids}

UpdateStart(i, id, updates, level) ==
    /\ CanStart(i)
    /\ started' = started + 1
    /\ calls' = [calls EXCEPT ![i] =
          Call("update", "find") @@ [id |-> id, updates |-> updates, level |-> level]]
    /\ UNCHANGED <<articles, authorRows, drive, perms, pendingShares, posts,
                   pendingSaves, events, uuids, deleted, landed>>

\* attemptUpdate(article, updates, {fail: true, roles}): the article with the
\* updates applied
Merge(art, updates) ==
    [f \in DOMAIN art |-> IF f \in DOMAIN updates THEN updates[f] ELSE art[f]]

\* lines 118-126: findOne answers; attemptUpdate; the save is issued
UpdateFind(i) ==
    /\ At(i, "update", "find")
    /\ LET c == [calls[i] EXCEPT !.art = Load(calls[i].id, FALSE)]
       IN  calls' = [calls EXCEPT ![i] =
              IF c.art = Undefined THEN Fail(c, "TypeError")
              ELSE IF ~(DOMAIN c.updates \subseteq Permitted(c.level))
                   THEN Fail(c, "Forbidden")
                   ELSE [c EXCEPT !.pc = "save", !.saves = @ + 1,
                                  !.art = Merge(c.art, c.updates)]]
    /\ UNCHANGED <<articles, authorRows, drive, perms, pendingShares, posts,
                   pendingSaves, events, uuids, deleted, landed, started>>

\* line 126: the save lands, or fails
UpdateSave(i) ==
    /\ At(i, "update", "save")
    /\ LET c == calls[i]
           row == UpsertRow(c.art, <<>>)
       IN  \/ /\ articles' = Store(row)
              /\ calls' = [calls EXCEPT ![i] =
                    [c EXCEPT !.pc = "done", !.result = "ok", !.ret = row]]
           \/ /\ calls' = [calls EXCEPT ![i] = Fail(c, "save")]
              /\ UNCHANGED articles
    /\ UNCHANGED <<authorRows, drive, perms, pendingShares, posts,
                   pendingSaves, events, uuids, deleted, landed, started>>

\* ------------------------------------------------------------------ delete
DeleteStart(i, id) ==
    /\ CanStart(i)
    /\ started' = started + 1
    /\ calls' = [calls EXCEPT ![i] = Call("delete", "delete") @@ [id |-> id]]
    /\ UNCHANGED <<articles, authorRows, drive, perms, pendingShares, posts,
                   pendingSaves, events, uuids, deleted, landed>>

Remove_all(id) == [j \in {} |-> Undefined]
\* repository.delete(id): the row and its relation rows are gone
Remove(id) == [j \in DOMAIN articles \ {id} |-> articles[j]]

\* lines 131-132
DeleteRow(i) ==
    /\ At(i, "delete", "delete")
    /\ articles' = Remove(calls[i].id)
    /\ deleted' = deleted \cup ({calls[i].id} \cap DOMAIN articles)
    /\ calls' = [calls EXCEPT ![i] = [@ EXCEPT !.pc = "done", !.result = "ok"]]
    /\ UNCHANGED <<authorRows, drive, perms, pendingShares, posts,
                   pendingSaves, events, uuids, landed, started>>

\* ----------------------------------------------------------------- publish
\* (after: the posts that existed when the call was entered, kept as history)
PublishStart(i, id) ==
    /\ CanStart(i)
    /\ started' = started + 1
    /\ calls' = [calls EXCEPT ![i] =
          Call("publish", "find") @@ [id |-> id, wordpress |-> Undefined, after |-> posts]]
    /\ UNCHANGED <<articles, authorRows, drive, perms, pendingShares, posts,
                   pendingSaves, events, uuids, deleted, landed>>

PublishFind_checked(i) ==
    /\ At(i, "publish", "find")
    /\ LET c == [calls[i] EXCEPT !.art = Load(calls[i].id, FALSE)]
       IN  calls' = [calls EXCEPT ![i] =
              IF c.art = Undefined THEN Fail(c, "NotFound")
              ELSE [c EXCEPT !.pc = "publishArticle", !.wp = Append(@, "publishArticle")]]
    /\ UNCHANGED <<articles, authorRows, drive, perms, pendingShares, posts,
                   pendingSaves, events, uuids, deleted, landed, started>>

\* lines 136-137: findOne answers; publishArticle is called with what it gave
PublishFind(i) ==
    /\ At(i, "publish", "find")
    /\ calls' = [calls EXCEPT ![i] =
          [@ EXCEPT !.pc = "publishArticle", !.art = Load(calls[i].id, FALSE),
                    !.wp = Append(@, "publishArticle")]]
    /\ UNCHANGED <<articles, authorRows, drive, perms, pendingShares, posts,
                   pendingSaves, events, uuids, deleted, landed, started>>

\* line 139: article.wordpressId = wordpress.id
WithWordpressId(art, wordpress) == [art EXCEPT !.wordpressId = wordpress.id]

\* lines 137-145: the platform creates the post (or fails); then the id is set
\* on the article, the save is issued without being awaited, and publish returns
PublishArticle(i) ==
    /\ At(i, "publish", "publishArticle")
    /\ LET c == calls[i]
           wordpress == [id |-> posts + 1]
       IN  \/ /\ posts' = posts + 1
              /\ IF c.art = Undefined
                 THEN /\ calls' = [calls EXCEPT ![i] =
                            Fail([c EXCEPT !.wordpress = wordpress], "TypeError")]
                      /\ UNCHANGED pendingSaves
                 ELSE /\ pendingSaves' =
                            pendingSaves \cup {WithWordpressId(c.art, wordpress)}
                      /\ calls' = [calls EXCEPT ![i] =
                            [c EXCEPT !.pc = "done", !.result = "ok", !.saves = @ + 1,
                                      !.wordpress = wordpress,
                                      !.art = WithWordpressId(c.art, wordpress),
                                      !.ret = WithWordpressId(c.art, wordpress)]]
           \/ /\ calls' = [calls EXCEPT ![i] = Fail(c, "publishArticle")]
              /\ UNCHANGED <<posts, pendingSaves>>
    /\ UNCHANGED <<articles, authorRows, drive, perms, pendingShares,
                   events, uuids, deleted, landed, started>>

\* line 140: a save nobody awaits lands, or fails unobserved
SaveLands(art) ==
    /\ art \in pendingSaves
    /\ pendingSaves' = pendingSaves \ {art}
    /\ \/ /\ articles' = Store(UpsertRow(art, <<>>))
          /\ landed' = landed \cup {art.wordpressId}
       \/ UNCHANGED <<articles, landed>>
    /\ UNCHANGED <<authorRows, drive, perms, pendingShares, posts, events,
                   uuids, deleted, started, calls>>

\* ------------------------------------------------------------ getPublished
GetPublishedStart(i, id) ==
    /\ CanStart(i)
    /\ started' = started + 1
    /\ calls' = [calls EXCEPT ![i] =
          Call("getPublished", "find") @@ [id |-> id, wordpress |-> Undefined]]
    /\ UNCHANGED <<articles, authorRows, drive, perms, pendingShares, posts,
                   pendingSaves, events, uuids, deleted, landed>>

GetPublishedFind_noCheck(i) ==
    /\ At(i, "getPublished", "find")
    /\ calls' = [calls EXCEPT ![i] =
          [@ EXCEPT !.pc = "getArticle", !.art = Load(calls[i].id, FALSE),
                    !.wp = Append(@, "getArticle")]]
    /\ UNCHANGED <<articles, authorRows, drive, perms, pendingShares, posts,
                   pendingSaves, events, uuids, deleted, landed, started>>

\* lines 154-160: findOne answers; undefined is handed back, or getArticle called
GetPublishedFind(i) ==
    /\ At(i, "getPublished", "find")
    /\ LET c == [calls[i] EXCEPT !.art = Load(calls[i].id, FALSE)]
       IN  calls' = [calls EXCEPT ![i] =
              IF c.art = Undefined
              THEN [c EXCEPT !.pc = "done", !.result = "undefined"]
              ELSE [c EXCEPT !.pc = "getArticle", !.wp = Append(@, "getArticle")]]
    /\ UNCHANGED <<articles, authorRows, drive, perms, pendingShares, posts,
                   pendingSaves, events, uuids, deleted, landed, started>>

\* lines 160-165: the platform answers with the post of the article, or fails
GetArticle(i) ==
    /\ At(i, "getPublished", "getArticle")
    /\ LET c == calls[i]
       IN  \/ calls' = [calls EXCEPT ![i] =
                 [c EXCEPT !.pc = "done", !.result = "ok", !.ret = c.art,
                           !.wordpress = [id |-> c.art.wordpressId]]]
           \/ calls' = [calls EXCEPT ![i] = Fail(c, "getArticle")]
    /\ UNCHANGED <<articles, authorRows, drive, perms, pendingShares, posts,
                   pendingSaves, events, uuids, deleted, landed, started>>

\* ------------------------------------------------------------------ assign
EditorInputs == {"A", "B"}           \* editors, by id
EditorLists == SeqsUpTo(EditorInputs, MaxEditors)

AssignStart(i, id, editors, remove) ==
    /\ CanStart(i)
    /\ started' = started + 1
    /\ calls' = [calls EXCEPT ![i] =
          Call("assign", "find") @@ [id |-> id, editors |-> editors, existingEditors |-> {}]]
    /\ UNCHANGED <<articles, authorRows, drive, perms, pendingShares, posts,
                   pendingSaves, events, uuids, deleted, landed>>

\* lines 203-207: every incoming editor that is not an existing one is pushed
RECURSIVE PushEditors(_, _, _)
PushEditors(list, editors, existingEditors) ==
    IF editors = <<>> THEN list
    ELSE PushEditors(IF Head(editors) \notin existingEditors
                     THEN Append(list, Head(editors)) ELSE list,
                     Tail(editors), existingEditors)

\* lines 192-209: findOne (with relations) answers; undefined is handed back, or
\* the editors are pushed and the save is issued
AssignFind(i) ==
    /\ At(i, "assign", "find")
    /\ LET c == [calls[i] EXCEPT !.art = Load(calls[i].id, TRUE)]
       IN  calls' = [calls EXCEPT ![i] =
              IF c.art = Undefined
              THEN [c EXCEPT !.pc = "done", !.result = "undefined"]
              ELSE [c EXCEPT !.pc = "save", !.saves = @ + 1,
                             !.existingEditors = Range(c.art.editors),
                             !.art.editors =
                                 PushEditors(c.art.editors, c.editors, Range(c.art.editors))]]
    /\ UNCHANGED <<articles, authorRows, drive, perms, pendingShares, posts,
                   pendingSaves, events, uuids, deleted, landed, started>>

Assigned(id, editor) == [name |-> "article.assigned", article |-> id, editor |-> editor]

AssignedEvents_all(art, existingEditors) ==
    [k \in DOMAIN art.editors |-> Assigned(art.id, art.editors[k])]
\* lines 211-218: one event per editor of the article that was not an existing one
AssignedEvents(art, existingEditors) ==
    LET new == SelectSeq(art.editors, LAMBDA e : e \notin existingEditors)
    IN  [k \in DOMAIN new |-> Assigned(art.id, new[k])]

\* lines 209-220: the save lands, the events are dispatched, assign returns; or
\* the save fails
AssignSave(i) ==
    /\ At(i, "assign", "save")
    /\ LET c == calls[i]
           row == UpsertRow(c.art, c.art.authors)
           evs == AssignedEvents(c.art, c.existingEditors)
       IN  \/ /\ articles' = Store(row)
              /\ events' = events \o evs
              /\ calls' = [calls EXCEPT ![i] =
                    [c EXCEPT !.pc = "done", !.result = "ok", !.dispatched = @ \o evs,
                              !.ret = c.art]]
           \/ /\ calls' = [calls EXCEPT ![i] = Fail(c, "save")]
              /\ UNCHANGED <<articles, events>>
    /\ UNCHANGED <<authorRows, drive, perms, pendingShares, posts,
                   pendingSaves, uuids, deleted, landed, started>>

\* --------------------------------------------------------- specifications
\* The calls on stored articles are explored from the store one create leaves
\* behind when it has run to its end with its share completed: the article u1
\* with its folder, document and marking grid, and its author.  SpecCreate
\* reaches this state (CreateReachesStored).
StoredAuthor == [id |-> 1] @@ AuthorDTO("n", "e1", "s", "b", "c")
StoredArticle ==
    [id |-> "u1", title |-> "t1", folderId |-> 1, docId |-> 2, markingGridId |-> 3,
     wordpressId |-> 0, authors |-> <<1>>, editors |-> <<>>]
StoredFiles ==
    <<Resource("folder", "t1", ENV_PARENT), Resource(DOC_MIME, "t1", 1),
      Resource(ENV_MARKING_GRID, <<"Marking Grid for ", "t1">>, 1)>>

InitStored ==
    /\ articles = ("u1" :> StoredArticle)
    /\ authorRows = <<StoredAuthor>>
    /\ drive = StoredFiles
    /\ perms = {<<2, "e1">>}
    /\ pendingShares = {}
    /\ posts = 0
    /\ pendingSaves = {}
    /\ events = <<Created(StoredArticle)>>
    /\ uuids = 1
    /\ deleted = {}
    /\ landed = {}
    /\ started = 0
    /\ calls = [i \in 1..MaxInFlight |-> Idle]

Next ==
    \/ \E i \in DOMAIN calls, id \in TargetIds, u \in UpdateInputs, l \in Levels :
          UpdateStart(i, id, u, l)
    \/ \E i \in DOMAIN calls : UpdateFind(i)
    \/ \E i \in DOMAIN calls : UpdateSave(i)
    \/ \E i \in DOMAIN calls, id \in TargetIds : DeleteStart(i, id)
    \/ \E i \in DOMAIN calls : DeleteRow(i)
    \/ \E i \in DOMAIN calls, id \in TargetIds : PublishStart(i, id)
    \/ \E i \in DOMAIN calls : PublishFind(i)
    \/ \E i \in DOMAIN calls : PublishArticle(i)
    \/ \E art \in pendingSaves : SaveLands(art)
    \/ \E i \in DOMAIN calls, id \in TargetIds : GetPublishedStart(i, id)
    \/ \E i \in DOMAIN calls : GetPublishedFind(i)
    \/ \E i \in DOMAIN calls : GetArticle(i)
    \/ \E i \in DOMAIN calls, id \in TargetIds, e \in EditorLists, r \in BOOLEAN :
          AssignStart(i, id, e, r)
    \/ \E i \in DOMAIN calls : AssignFind(i)
    \/ \E i \in DOMAIN calls : AssignSave(i)
    \/ \E i \in DOMAIN calls : Return(i)

Spec == InitStored /\ [][Next]_vars

\* the shared state of InitStored, with no call in flight
CreateReachesStored ==
    /\ articles = ("u1" :> StoredArticle)
    /\ authorRows = <<StoredAuthor>>
    /\ drive = StoredFiles
    /\ perms = {<<2, "e1">>}
    /\ pendingShares = {}
    /\ events = <<Created(StoredArticle)>>
    /\ uuids = 1
    /\ \A i \in DOMAIN calls : calls[i] = Idle

\* delete is explored beside update from the store two creates leave behind
\* when both have run to their end for the same author: the articles u1 and u2,
\* each with its own folder, document and marking grid.  SpecCreate reaches
\* this state (CreateReachesTwo).
SecondArticle ==
    [id |-> "u2", title |-> "t1", folderId |-> 4, docId |-> 5, markingGridId |-> 6,
     wordpressId |-> 0, authors |-> <<1>>, editors |-> <<>>]
TwoFiles ==
    StoredFiles \o
    <<Resource("folder", "t1", ENV_PARENT), Resource(DOC_MIME, "t1", 4),
      Resource(ENV_MARKING_GRID, <<"Marking Grid for ", "t1">>, 4)>>

InitTwo ==
    /\ articles = ("u1" :> StoredArticle) @@ ("u2" :> SecondArticle)
    /\ authorRows = <<StoredAuthor>>
    /\ drive = TwoFiles
    /\ perms = {<<2, "e1">>, <<5, "e1">>}
    /\ pendingShares = {}
    /\ posts = 0
    /\ pendingSaves = {}
    /\ events = <<Created(StoredArticle), Created(SecondArticle)>>
    /\ uuids = 2
    /\ deleted = {}
    /\ landed = {}
    /\ started = 0
    /\ calls = [i \in 1..MaxInFlight |-> Idle]

NextTwo ==
    \/ \E i \in DOMAIN calls, id \in TargetIds : DeleteStart(i, id)
    \/ \E i \in DOMAIN calls : DeleteRow(i)
    \/ \E i \in DOMAIN calls, id \in TargetIds, u \in UpdateInputs, l \in Levels :
          UpdateStart(i, id, u, l)
    \/ \E i \in DOMAIN calls : UpdateFind(i)
    \/ \E i \in DOMAIN calls : UpdateSave(i)
    \/ \E i \in DOMAIN calls : Return(i)

SpecTwo == InitTwo /\ [][NextTwo]_vars

\* the shared state of InitTwo, with no call in flight
CreateReachesTwo ==
    /\ articles = ("u1" :> StoredArticle) @@ ("u2" :> SecondArticle)
    /\ authorRows = <<StoredAuthor>>
    /\ drive = TwoFiles
    /\ perms = {<<2, "e1">>, <<5, "e1">>}
    /\ pendingShares = {}
    /\ events = <<Created(StoredArticle), Created(SecondArticle)>>
    /\ uuids = 2
    /\ \A i \in DOMAIN calls : calls[i] = Idle

\* ================================================================== claims
IsCreate(i) == calls[i].op = "create"

\* ---- C4
RejectedInput(c) ==
    \/ c.dto.authors = <<>>
    \/ \E k \in DOMAIN c.dto.authors : \E f \in AuthorFields : c.dto.authors[k][f] = ""
    \/ c.mime \notin ALLOWED_FORMATS

\* C4: a create whose author list is empty, or holds an author with a
\* field-validation error, or whose file has a MIME type outside the allowed
\* formats, fails having made no document-storage call, no repository save and
\* no event dispatch.
C4_InvalidCreateFailsWithoutCalls ==
    \A i \in DOMAIN calls :
        (IsCreate(i) /\ RejectedInput(calls[i])) =>
            /\ calls[i].pc = "failed"
            /\ calls[i].result \in {"Error", "ValidationError"}
            /\ calls[i].drive = <<>>
            /\ calls[i].saves = 0
            /\ calls[i].dispatched = <<>>

\* one create was rejected for a bad author beside a good one, another for its
\* MIME type alone
C4_Witness ==
    \E i, j \in DOMAIN calls :
        /\ IsCreate(i) /\ calls[i].pc = "failed"
        /\ calls[i].mime \in ALLOWED_FORMATS
        /\ Len(calls[i].dto.authors) = 2
        /\ validateSync(calls[i].dto.authors[1]) = {}
        /\ validateSync(calls[i].dto.authors[2]) # {}
        /\ IsCreate(j) /\ calls[j].pc = "failed"
        /\ calls[j].mime \notin ALLOWED_FORMATS
        /\ Len(calls[j].dto.authors) = 1
        /\ validateSync(calls[j].dto.authors[1]) = {}

\* ---- C5
StepsBefore(err) ==
    CASE err = "createFolder" -> <<"createFolder">>
      [] err = "createFile" -> <<"createFolder", "createFile">>
      [] err = "copy" -> <<"createFolder", "createFile", "copy">>
      [] err = "save" -> <<"createFolder", "createFile", "copy">>

IsResource(id, kind) == id \in DOMAIN drive /\ drive[id].kind = kind

\* C5: when createFolder, createFile, the marking-grid copy or the save fails,
\* create has failed with that error, has run no later step (so no save has
\* landed and no event was dispatched), has made no further document-storage
\* call, and what the earlier steps created is still in the document storage.
C5_FailureAbortsWithoutRollback ==
    \A i \in DOMAIN calls :
        (IsCreate(i) /\ calls[i].pc = "failed"
                     /\ calls[i].result \in {"createFolder", "createFile", "copy", "save"}) =>
            LET c == calls[i]
                made == SelectSeq(c.drive, LAMBDA m : m # "shareFile")
            IN  /\ made = StepsBefore(c.result)
                /\ (c.result # "save") =>
                       /\ ~(\E k \in DOMAIN c.drive : c.drive[k] = "shareFile")
                       /\ c.saves = 0
                /\ c.dispatched = <<>>
                /\ c.ret = Undefined
                /\ (c.result = "save") => c.art.id \notin DOMAIN articles
                /\ (c.result \in {"createFile", "copy", "save"}) =>
                       IsResource(c.art.folderId, "folder")
                /\ (c.result \in {"copy", "save"}) => IsResource(c.art.docId, DOC_MIME)
                /\ (c.result = "save") => IsResource(c.art.markingGridId, ENV_MARKING_GRID)

C5_Witness ==
    \E i \in DOMAIN calls :
        /\ IsCreate(i) /\ calls[i].pc = "failed" /\ calls[i].result = "save"
        /\ IsResource(calls[i].art.markingGridId, ENV_MARKING_GRID)

\* ---- C6
RowsWithEmail(rows, e) == {k \in DOMAIN rows : rows[k].email = e}
Resolves(i) == IsCreate(i) /\ calls[i].pc = "resolve" /\ calls'[i].pc = "createFolder"
Persists(i) == IsCreate(i) /\ calls[i].pc = "save" /\ calls'[i].pc = "done"

\* the lookup: an author whose email is in the author table becomes that row
\* (the first with the email), any other stays the submitted data, without id
C6_Lookup(i) ==
    \A k \in DOMAIN calls[i].dto.authors :
        LET sub == calls[i].dto.authors[k]
            got == calls'[i].authors[k]
        IN  IF RowsWithEmail(authorRows, sub.email) # {}
            THEN /\ got.id \in RowsWithEmail(authorRows, sub.email)
                 /\ got = authorRows[got.id]
            ELSE got = [id |-> 0] @@ sub

\* the save: a reused row is in the article's author list by its id and no row
\* with its email is added; submitted data is stored as it was submitted
C6_Save(i) ==
    LET c == calls[i]
        row == articles'[calls'[i].ret.id]
    IN  \A k \in DOMAIN c.authors :
            LET a == c.authors[k]
            IN  IF a.id # 0
                THEN /\ a.id \in Range(row.authors)
                     /\ authorRows'[a.id] = a
                     /\ RowsWithEmail(authorRows', a.email) = RowsWithEmail(authorRows, a.email)
                ELSE \E n \in Range(row.authors) :
                        /\ n \notin DOMAIN authorRows
                        /\ authorRows'[n] = [id |-> n] @@ c.dto.authors[k]

\* C6: a submitted author whose email matches an author record in the store is
\* replaced by that record, which the persisted article lists by its existing
\* id, and no further record with that email is persisted; an author whose
\* email matches no record is kept, and persisted, as the submitted data.
C6_ExistingAuthorReused ==
    [][\A i \in DOMAIN calls :
          /\ Resolves(i) => C6_Lookup(i)
          /\ Persists(i) => C6_Save(i)]_vars

\* a create has persisted an article listing an author row that an earlier
\* create had inserted, beside a new author, with one row per email
C6_Witness ==
    \E i \in DOMAIN calls :
        /\ IsCreate(i) /\ calls[i].pc = "done"
        /\ Len(calls[i].authors) = 2
        /\ calls[i].authors[1].id # 0
        /\ calls[i].authors[2].id = 0
        /\ Len(authorRows) = 2
        /\ authorRows[1].email # authorRows[2].email
        /\ Cardinality(DOMAIN articles) = 2

\* ---- C7
\* C7: the article a successful create persists has as folderId, docId and
\* markingGridId the ids createFolder, createFile and copy returned to that
\* call, the document and the marking grid lying in that folder, and an id
\* that is new: not the id of the input, not the id of any stored article.
C7_PersistsReturnedIdsAndFreshId ==
    [][\A i \in DOMAIN calls :
          Persists(i) =>
              LET c == calls[i]
                  row == calls'[i].ret
              IN  /\ row.id \in DOMAIN articles' /\ articles'[row.id] = row
                  /\ row.id \notin DOMAIN articles
                  /\ row.id \notin deleted
                  /\ row.id # c.dto.id
                  /\ row.title = c.dto.title
                  /\ IsResource(row.folderId, "folder")
                  /\ drive[row.folderId] = Resource("folder", c.dto.title, ENV_PARENT)
                  /\ drive[row.docId] = Resource(DOC_MIME, c.dto.title, row.folderId)
                  /\ drive[row.markingGridId] =
                        Resource(ENV_MARKING_GRID, <<"Marking Grid for ", c.dto.title>>,
                                 row.folderId)
                  /\ \A j \in DOMAIN articles :
                        /\ articles'[j] = articles[j]
                        /\ articles[j].folderId # row.folderId
                        /\ articles[j].docId # row.docId
                        /\ articles[j].markingGridId # row.markingGridId]_vars

\* a second article was persisted by a create that was given the first one's id
C7_Witness ==
    \E i \in DOMAIN calls :
        /\ IsCreate(i) /\ calls[i].pc = "done"
        /\ calls[i].dto.id \in DOMAIN articles
        /\ calls[i].ret.id # calls[i].dto.id
        /\ Cardinality(DOMAIN articles) = 2

\* ---- C1
Occurrences(seq, x) == Cardinality({k \in DOMAIN seq : seq[k] = x})
EditorsOf(store, id) == IF id \in DOMAIN store THEN store[id].editors ELSE <<>>
AssignSaves(i) == calls[i].op = "assign" /\ calls[i].pc = "save" /\ calls'[i].pc = "done"

\* C1: when assign is given a list in which an editor that is not yet assigned
\* occurs more than once, the save leaves that editor exactly once in the
\* article's stored editor list and exactly one article.assigned event is
\* dispatched for it.
C1_DuplicateInputAssignedOnce ==
    [][\A i \in DOMAIN calls :
          AssignSaves(i) =>
              \A e \in Range(calls[i].editors) \ calls[i].existingEditors :
                  Occurrences(calls[i].editors, e) > 1 =>
                      /\ Occurrences(EditorsOf(articles', calls[i].id), e) = 1
                      /\ Occurrences(calls'[i].dispatched,
                                     Assigned(calls[i].id, e)) = 1]_vars

\* ---- C2
IsPublished(i, id) ==
    calls[i].op = "publish" /\ calls[i].pc = "done" /\ calls[i].id = id

\* publish i had returned when publish j was entered
ReturnedBefore(i, j) == calls[i].wordpress.id <= calls[j].after

\* C2: after two publish calls on one stored article, the second entered after
\* the first had returned, publishArticle has been invoked exactly twice, and
\* with both saves landed the stored wordpressId is the id the second call got.
C2_SecondPublishWins ==
    \A i, j \in DOMAIN calls : \A id \in DOMAIN articles :
        (/\ started = 2
         /\ IsPublished(i, id) /\ IsPublished(j, id) /\ i # j
         /\ ReturnedBefore(i, j)
         /\ {calls[i].wordpress.id, calls[j].wordpress.id} \subseteq landed) =>
            /\ posts = 2
            /\ calls[i].wp = <<"publishArticle">> /\ calls[j].wp = <<"publishArticle">>
            /\ articles[id].wordpressId = calls[j].wordpress.id

\* ---- C3
\* C3: once delete has removed an article's row, no row with that id exists in
\* the store again, whatever update, assign or publish calls are in flight or
\* follow.
C3_DeletedIsAbsorbing == \A id \in deleted : id \notin DOMAIN articles

\* ---- C8
\* C8: an assign whose (non-empty) input holds only editors the article already
\* has dispatches no article.assigned event and leaves the stored editor list
\* as it was.
C8_AssignIdempotent ==
    [][\A i \in DOMAIN calls :
          (/\ AssignSaves(i)
           /\ calls[i].editors # <<>>
           /\ Range(calls[i].editors) \subseteq calls[i].existingEditors
           /\ Range(calls[i].editors) \subseteq Range(EditorsOf(articles, calls[i].id))) =>
              /\ calls'[i].dispatched = <<>>
              /\ events' = events
              /\ EditorsOf(articles', calls[i].id) = EditorsOf(articles, calls[i].id)]_vars

\* ---- C9
GetPublishedSteps(i) ==
    /\ calls'[i] # calls[i]
    /\ calls'[i] # Idle
    /\ calls'[i].op = "getPublished"

\* C9: getPublished on an id without a stored article hands back undefined and
\* never calls the publishing platform; on a stored article it calls getArticle
\* exactly once; and no step of it changes the store, the platform's posts, the
\* pending saves or the events.
C9_GetPublished ==
    [][\A i \in DOMAIN calls :
          GetPublishedSteps(i) =>
              LET c == calls'[i]
              IN  /\ UNCHANGED <<articles, authorRows, drive, perms, pendingShares,
                                 posts, pendingSaves, events>>
                  /\ c.saves = 0 /\ c.drive = <<>> /\ c.dispatched = <<>>
                  /\ (calls[i] # Idle /\ calls[i].pc = "find") =>
                        IF c.id \in DOMAIN articles
                        THEN c.pc = "getArticle" /\ c.wp = <<"getArticle">>
                        ELSE /\ c.pc = "done" /\ c.result = "undefined"
                             /\ c.ret = Undefined /\ c.wp = <<>>
                  /\ (c.pc = "done" /\ c.result = "ok") =>
                        c.wp = <<"getArticle">> /\ c.ret.id = c.id]_vars

\* getPublished has answered undefined for the missing id and the pair for a
\* stored article
C9_Witness ==
    \E i, j \in DOMAIN calls :
        /\ calls[i].op = "getPublished" /\ calls[i].pc = "done"
        /\ calls[i].result = "undefined" /\ calls[i].wp = <<>>
        /\ calls[j].op = "getPublished" /\ calls[j].pc = "done"
        /\ calls[j].result = "ok" /\ calls[j].wp = <<"getArticle">>

\* ---- C10
\* C10: the stored folderId and docId of an article never change, and a save
\* of publish changes no stored field of the article but wordpressId.
C10_OnlyWordpressIdChanges ==
    [][\A id \in DOMAIN articles \cap DOMAIN articles' :
          /\ articles'[id].folderId = articles[id].folderId
          /\ articles'[id].docId = articles[id].docId
          /\ (pendingSaves' # pendingSaves /\ calls' = calls) =>
                articles' = [articles EXCEPT ![id].wordpressId = articles'[id].wordpressId]]_vars

\* ---- C11
NotFound(c, e) == {k \in DOMAIN c.authors : c.authors[k].id = 0 /\ c.authors[k].email = e}

\* C11: the save of create inserts one author record for every author its
\* lookup did not find, whether or not a record with that email has been
\* persisted since the lookup; so two creates that both looked an email up
\* before either saved leave two author records with that email.
C11_RacingCreatesDuplicateAuthor ==
    [][\A i \in DOMAIN calls :
          Persists(i) =>
              \A k \in DOMAIN calls[i].authors :
                  LET e == calls[i].authors[k].email
                  IN  Cardinality(RowsWithEmail(authorRows', e)) =
                         Cardinality(RowsWithEmail(authorRows, e))
                            + Cardinality(NotFound(calls[i], e))]_vars

\* two creates, each with one author of the same email that neither lookup
\* found, have both persisted: two articles, two author records, one email
C11_Witness ==
    \E i, j \in DOMAIN calls :
        /\ i # j
        /\ IsCreate(i) /\ calls[i].pc = "done" /\ IsCreate(j) /\ calls[j].pc = "done"
        /\ Len(calls[i].authors) = 1 /\ Len(calls[j].authors) = 1
        /\ calls[i].authors[1].id = 0 /\ calls[j].authors[1].id = 0
        /\ calls[i].authors[1].email = calls[j].authors[1].email
        /\ Cardinality(RowsWithEmail(authorRows, calls[i].authors[1].email)) = 2
        /\ articles[calls[i].ret.id].authors # articles[calls[j].ret.id].authors

\* ---- C12
IssuesShares(i) == IsCreate(i) /\ calls[i].pc = "copy" /\ calls'[i].pc = "save"
SharesOf(c, pending) == {s \in pending : s.doc = c.art.docId}

\* C12: shareFile is issued by create alone, in the step in which the marking
\* grid has been copied and so after folder and document exist: once per
\* resolved author, as writer, on the new document.  The completion of a
\* shareFile, granted or failed, touches no call, no stored record and no
\* event; the save of create then persists, dispatches and hands back the same
\* article whatever has become of the shares, and no create fails for a share.
C12_SharesFireAndForget ==
    [][/\ \A i \in DOMAIN calls :
            /\ IssuesShares(i) =>
                  LET c == calls'[i]
                      new == pendingShares' \ pendingShares
                  IN  /\ c.art.markingGridId = Len(drive')
                      /\ drive'[c.art.folderId].kind = "folder"
                      /\ drive'[c.art.docId].kind = DOC_MIME
                      /\ drive'[c.art.markingGridId].kind = ENV_MARKING_GRID
                      /\ c.drive = <<"createFolder", "createFile", "copy">>
                                      \o [k \in DOMAIN c.authors |-> "shareFile"]
                      /\ pendingShares \subseteq pendingShares'
                      /\ Cardinality(new) = Len(c.authors)
                      /\ \A s \in new : s.doc = c.art.docId /\ s.role = "writer"
                      /\ \A k \in DOMAIN c.authors :
                            \E s \in new : s.k = k /\ s.email = c.authors[k].email
            /\ Persists(i) =>
                  LET c == calls[i]
                      ret == calls'[i].ret
                  IN  /\ Columns(ret) = Columns(c.art)
                      /\ articles' = (ret.id :> ret) @@ articles
                      /\ events' = Append(events, Created(ret))
                      /\ UNCHANGED <<perms, pendingShares>>
            /\ (IsCreate(i) /\ calls[i].pc = "failed") =>
                  calls[i].result \in {"Error", "ValidationError", "createFolder",
                                       "createFile", "copy", "save"}
       /\ ~(pendingShares' \subseteq pendingShares) => \E i \in DOMAIN calls : IssuesShares(i)
       /\ (pendingShares' # pendingShares /\ pendingShares' \subseteq pendingShares) =>
              /\ UNCHANGED <<calls, articles, authorRows, events, drive>>
              /\ Cardinality(pendingShares \ pendingShares') = 1
       /\ perms' # perms =>
              \E s \in pendingShares \ pendingShares' : perms' = perms \cup {<<s.doc, s.email>>}]_vars

\* two creates have handed their article back: of the two shares of one, the
\* first was granted and the second failed; the share of the other is pending
C12_Witness ==
    \E i, j \in DOMAIN calls :
        /\ IsCreate(i) /\ calls[i].pc = "done" /\ IsCreate(j) /\ calls[j].pc = "done"
        /\ i # j
        /\ Len(calls[i].authors) = 2
        /\ calls[i].authors[1].email # calls[i].authors[2].email
        /\ SharesOf(calls[i], pendingShares) = {}
        /\ <<calls[i].art.docId, calls[i].authors[1].email>> \in perms
        /\ <<calls[i].art.docId, calls[i].authors[2].email>> \notin perms
        /\ SharesOf(calls[j], pendingShares) # {}
        /\ calls[i].ret = articles[calls[i].ret.id]
        /\ calls[j].ret = articles[calls[j].ret.id]
        /\ Len(events) = 2

\* ---- C13
Deletes(i) == calls[i].op = "delete" /\ calls[i].pc = "delete" /\ calls'[i].pc = "done"
DeleteSteps(i) == calls'[i] # calls[i] /\ calls'[i] # Idle /\ calls'[i].op = "delete"

\* C13: the step in which delete(id) reaches the store leaves no record with
\* that id and every other record as it was; no step of a delete calls the
\* document storage or the publishing platform, dispatches an event or saves.
C13_DeleteRemovesOnlyItsRecord ==
    [][\A i \in DOMAIN calls :
          /\ DeleteSteps(i) =>
                /\ UNCHANGED <<authorRows, drive, perms, pendingShares, posts,
                               pendingSaves, events>>
                /\ calls'[i].drive = <<>> /\ calls'[i].wp = <<>>
                /\ calls'[i].dispatched = <<>> /\ calls'[i].saves = 0
          /\ Deletes(i) =>
                /\ calls[i].id \notin DOMAIN articles'
                /\ DOMAIN articles' = DOMAIN articles \ {calls[i].id}
                /\ \A j \in DOMAIN articles' : articles'[j] = articles[j]
                /\ calls'[i].result = "ok"]_vars

\* delete has removed u1 while u2, which an update had retitled, is stored as
\* it was, and the six resources of the document storage are all still there
C13_Witness ==
    \E i \in DOMAIN calls :
        /\ calls[i].op = "delete" /\ calls[i].pc = "done" /\ calls[i].id = "u1"
        /\ DOMAIN articles = {"u2"}
        /\ articles["u2"] = [SecondArticle EXCEPT !.title = "t2"]
        /\ drive = TwoFiles
        /\ Len(events) = 2

\* ---- C14
\* C14: a publish that has handed {article, wordpress} back has had its save
\* land in the store (the stored wordpressId has been set to wordpress.id), so
\* that save is neither still on its way nor lost to a failure.
C14_PublishPersistsBeforeReturn ==
    \A i \in DOMAIN calls :
        (calls[i].op = "publish" /\ calls[i].pc = "done") =>
            /\ calls[i].ret \notin pendingSaves
            /\ calls[i].wordpress.id \in landed

\* ---- C15
IsCreatedEvent(e, row) == e.name = "article.created" /\ e.article = row
CreatedEvents(evs, row) == {k \in DOMAIN evs : IsCreatedEvent(evs[k], row)}

\* C15: the step in which the save of a create completes dispatches one
\* article.created event whose payload is the article that save returned, which
\* is the stored record with the id, folderId, docId and markingGridId of the
\* call; no other step of a create dispatches anything, so each stored article
\* has exactly one such event and a create that is not done has none.
C15_CreatedDispatchedOnceAfterSave ==
    [][/\ \A i \in DOMAIN calls :
            /\ Persists(i) =>
                  LET c == calls[i]
                      ret == calls'[i].ret
                  IN  /\ ret.id \notin DOMAIN articles
                      /\ ret.id \in DOMAIN articles' /\ articles'[ret.id] = ret
                      /\ ret.id = c.art.id /\ ret.folderId = c.art.folderId
                      /\ ret.docId = c.art.docId
                      /\ ret.markingGridId = c.art.markingGridId
                      /\ Len(events') = Len(events) + 1
                      /\ SubSeq(events', 1, Len(events)) = events
                      /\ IsCreatedEvent(events'[Len(events')], ret)
                      /\ Len(calls'[i].dispatched) = 1
                      /\ IsCreatedEvent(calls'[i].dispatched[1], ret)
            /\ (calls'[i] # Idle /\ calls'[i].op = "create" /\ calls'[i].pc # "done") =>
                  calls'[i].dispatched = <<>>
       /\ events' # events => \E i \in DOMAIN calls : Persists(i)
       /\ Len(events') = Cardinality(DOMAIN articles')
       /\ \A id \in DOMAIN articles' :
             Cardinality(CreatedEvents(events', articles'[id])) = 1]_vars

\* two creates in flight together have succeeded, the one that made its folder
\* last saving first: two stored articles, two events in the order of the
\* saves, each carrying the article its save returned
C15_Witness ==
    \E i, j \in DOMAIN calls :
        /\ i # j
        /\ IsCreate(i) /\ calls[i].pc = "done" /\ IsCreate(j) /\ calls[j].pc = "done"
        /\ Len(events) = 2
        /\ IsCreatedEvent(events[1], articles[calls[i].ret.id])
        /\ IsCreatedEvent(events[2], articles[calls[j].ret.id])
        /\ calls[i].ret.folderId > calls[j].ret.folderId

\* ---- C16
IsAssign(c) == c # Idle /\ c.op = "assign"
IsAssignedEvent(e, id, editor) ==
    e.name = "article.assigned" /\ e.article = id /\ e.editor = editor

\* C16: assign dispatches in the step in which its save has succeeded and in no
\* other (a failed save leaves it without any event); the events it dispatches
\* are those of the editors of its input that the article's editor list, as
\* the call loaded it, did not hold, in the order of the input; and the saved
\* record holds each of them.
C16_AssignedAfterSaveInInputOrder ==
    [][\A i \in DOMAIN calls :
          /\ AssignSaves(i) =>
                LET c == calls[i]
                    new == SelectSeq(c.editors, LAMBDA e : e \notin c.existingEditors)
                    sent == calls'[i].dispatched
                IN  /\ Len(sent) = Len(new)
                    /\ \A k \in DOMAIN new : IsAssignedEvent(sent[k], c.id, new[k])
                    /\ events' = events \o sent
                    /\ c.id \in DOMAIN articles'
                    /\ Range(new) \subseteq Range(articles'[c.id].editors)
          /\ (IsAssign(calls'[i]) /\ calls'[i].pc # "done") => calls'[i].dispatched = <<>>
          /\ (IsAssign(calls'[i]) /\ calls'[i] # calls[i] /\ ~AssignSaves(i)) =>
                events' = events
          /\ (IsAssign(calls[i]) /\ calls[i].pc = "find" /\ calls'[i].pc = "save") =>
                calls'[i].existingEditors = Range(EditorsOf(articles, calls[i].id))]_vars

\* an assign of [B, A] to an article that held A has dispatched for B alone,
\* and an assign of [B, A] that had loaded no editor has dispatched for B, then A
C16_Witness ==
    \E i, j \in DOMAIN calls :
        /\ IsAssign(calls[i]) /\ calls[i].pc = "done" /\ calls[i].result = "ok"
        /\ calls[i].editors = <<"B", "A">> /\ calls[i].existingEditors = {"A"}
        /\ Len(calls[i].dispatched) = 1 /\ calls[i].dispatched[1].editor = "B"
        /\ IsAssign(calls[j]) /\ calls[j].pc = "done" /\ calls[j].result = "ok"
        /\ calls[j].editors = <<"B", "A">> /\ calls[j].existingEditors = {}
        /\ Len(calls[j].dispatched) = 2
        /\ calls[j].dispatched[1].editor = "B" /\ calls[j].dispatched[2].editor = "A"

\* ---- C17
IsUpdate(c) == c # Idle /\ c.op = "update"
Disallowed(c) == DOMAIN c.updates \ Permitted(c.level)
UpdateSaves(i) == IsUpdate(calls[i]) /\ calls[i].pc = "save" /\ calls'[i].pc = "done"

\* an update holding a field its user's level may not mutate fails without a
\* save, and no step of it changes the store
C17_Rejects(i) ==
    (IsUpdate(calls'[i]) /\ calls'[i] # calls[i] /\ Disallowed(calls'[i]) # {}) =>
        /\ calls'[i].pc \in {"find", "failed"}
        /\ calls'[i].saves = 0
        /\ articles' = articles

\* the save of an update whose fields are all permitted leaves the stored
\* article (when it is still stored) with exactly those fields changed
C17_Applies(i) ==
    (UpdateSaves(i) /\ calls[i].id \in DOMAIN articles) =>
        LET c == calls[i]
        IN  /\ Disallowed(c) = {}
            /\ articles' = [articles EXCEPT ![c.id] =
                   [f \in DOMAIN @ |-> IF f \in DOMAIN c.updates THEN c.updates[f] ELSE @[f]]]

\* C17: an update with any field outside the whitelist of its user's level
\* fails, saves nothing and leaves the stored article unchanged; one whose
\* fields are all permitted changes exactly those fields of the stored article.
C17_UpdateAllOrNothing ==
    [][\A i \in DOMAIN calls : C17_Rejects(i) /\ C17_Applies(i)]_vars

\* ---- C18
IsPublish(c) == c # Idle /\ c.op = "publish"

\* C18: a publish whose findOne finds no article still invokes publishArticle,
\* with undefined; it then fails, either because the platform fails or, the
\* platform having created a post, on setting wordpressId on undefined; and it
\* issues no save.
C18_PublishOfMissingCallsPlatform ==
    [][\A i \in DOMAIN calls :
          /\ (IsPublish(calls[i]) /\ calls[i].pc = "find" /\ calls'[i] # calls[i]
                 /\ calls[i].id \notin DOMAIN articles) =>
                /\ calls'[i].pc = "publishArticle"
                /\ calls'[i].art = Undefined
                /\ calls'[i].wp = <<"publishArticle">>
          /\ (IsPublish(calls[i]) /\ calls[i].pc = "publishArticle" /\ calls'[i] # calls[i]
                 /\ calls[i].art = Undefined) =>
                /\ calls'[i].pc = "failed"
                /\ calls'[i].result \in {"TypeError", "publishArticle"}
                /\ (calls'[i].result = "TypeError") <=> (posts' = posts + 1)
                /\ calls'[i].wp = <<"publishArticle">>
                /\ calls'[i].saves = 0
                /\ UNCHANGED <<articles, pendingSaves, landed>>]_vars

\* a publish of the id that never existed has failed on undefined after the
\* platform created a post for it; nothing was saved
C18_Witness ==
    \E i \in DOMAIN calls :
        /\ IsPublish(calls[i]) /\ calls[i].pc = "failed" /\ calls[i].id = MissingId
        /\ calls[i].result = "TypeError"
        /\ calls[i].wp = <<"publishArticle">>
        /\ calls[i].saves = 0
        /\ posts = 1 /\ pendingSaves = {} /\ landed = {}
        /\ articles = ("u1" :> StoredArticle)

\* ---- C19
AssignInFlight == \E i \in DOMAIN calls : IsAssign(calls[i]) /\ calls[i].pc \in {"find", "save"}

\* C19: when no assign is in flight and no article was deleted, every editor
\* for whom an article.assigned event was dispatched is in the stored editor
\* list of the article of that event.
C19_NoAssignLosesEditor ==
    (~AssignInFlight /\ deleted = {}) =>
        \A k \in DOMAIN events :
            events[k].name = "article.assigned" =>
                /\ events[k].article \in DOMAIN articles
                /\ events[k].editor \in Range(articles[events[k].article].editors)
====
